---- MODULE Spec2Model ----
(***************************************************************************)
(* Runtime-configuration resolution and boot-command generation of         *)
(* capstan: the Runtime variants (native, Java), the fields common to all  *)
(* of them, the inheritance resolver and the cross-package registry with   *)
(* its persist pass.                                                       *)
(*                                                                         *)
(* A Go string is a sequence of atoms: the separator characters ":" and    *)
(* " " are atoms of their own, every other atom is a run of characters     *)
(* holding no separator.  A Go map is a record [nil, m]: nil tells the nil *)
(* map from an allocated one, m is the function from keys to values.       *)
(***************************************************************************)
EXTENDS Integers, Sequences, FiniteSets, TLC

(* ------------------------------ strings ------------------------------- *)

Colon == ":"
Space == " "
EmptyStr == << >>

\* strings.Contains(s, a) for a one-character separator a
Contains(s, a) == \E i \in 1..Len(s) : s[i] = a

FirstIndex(s, a) == CHOOSE i \in 1..Len(s) : s[i] = a /\ \A j \in 1..(i-1) : s[j] # a

\* strings.SplitN(s, ":", 2)
SplitN2(s) ==
    IF Contains(s, Colon)
    THEN LET i == FirstIndex(s, Colon)
         IN  << SubSeq(s, 1, i-1), SubSeq(s, i+1, Len(s)) >>
    ELSE << s >>

RECURSIVE Join(_, _)
\* strings.Join(list, sep)
Join(list, sep) ==
    IF Len(list) = 0 THEN EmptyStr
    ELSE IF Len(list) = 1 THEN list[1]
    ELSE list[1] \o << sep >> \o Join(Tail(list), sep)

RECURSIVE Concat(_)
Concat(ss) == IF Len(ss) = 0 THEN EmptyStr ELSE Head(ss) \o Concat(Tail(ss))

\* all the orders in which a range loop may visit the set S
Perms(S) == { p \in [1..Cardinality(S) -> S] : \A i, j \in 1..Cardinality(S) : p[i] = p[j] => i = j }

(* -------------------------------- maps -------------------------------- *)

NilMap == [nil |-> TRUE, m |-> << >>]
MkMap(f) == [nil |-> FALSE, m |-> f]
Keys(e) == DOMAIN e.m
NilList == [nil |-> TRUE, l |-> << >>]
MkList(l) == [nil |-> FALSE, l |-> l]

\* make([]string, 15): the length the lists of updated keys start with
UpdatedLen == 15

ZeroStrings == [i \in 1..UpdatedLen |-> EmptyStr]

\* util.DeepCopyMap: a map of its own holding the same entries
DeepCopyMap(e) == MkMap(e.m)

SeqRange(s) == { s[i] : i \in 1..Len(s) }

\* util.ExcludeFromMap: the entries of e whose key is not listed in keys
ExcludeFromMap(e, keys) ==
    MkMap([k \in (Keys(e) \ SeqRange(keys)) |-> e.m[k]])

(* --------------------------- common runtime --------------------------- *)

\* CommonRuntime.ForceEnv: the target map after the call
ForceEnvMap(target, env) ==
    IF target.nil THEN target
    ELSE MkMap([k \in Keys(target) |-> IF k \in Keys(env) THEN env.m[k] ELSE target.m[k]])

\* the keys of env that CommonRuntime.ForceEnv finds in the target
ForceEnvKeys(target, env) == Keys(env) \cap Keys(target)

\* CommonRuntime.ForceEnv: the list it returns, ord being the order in which the
\* range loop met the keys it updated
ForceEnvUpdated(ord) == ZeroStrings \o ord

\* CommonRuntime.setDefaultEnv: the receiver's map after the call
setDefaultEnv(own, env) ==
    LET add == { k \in Keys(env) : env.m[k] # EmptyStr /\ k \notin Keys(own) }
    IN  MkMap([k \in (Keys(own) \cup add) |-> IF k \in Keys(own) THEN own.m[k] ELSE env.m[k]])

\* the hard operator of PrependEnvsPrefix
HardOp == << "=" >>

SoftOp == << "?=" >>

EnvToken(k, op, v) == << "--env=" >> \o k \o op \o v \o << Space >>

\* PrependEnvsPrefix, the map visited in order ord (its error result is always nil)
PrependEnvsPrefix(cmd, env, soft, ord) ==
    LET operator == IF soft THEN SoftOp ELSE HardOp
    IN  Concat([i \in 1..Len(ord) |-> EnvToken(ord[i], operator, env.m[ord[i]])]) \o cmd

\* the soft argument BuildBootCmd passes in terminal mode
TerminalSoft == TRUE

\* the soft argument inheritBootCmd passes for the keys the base does not know
InheritSoft == TRUE

\* the checks of the base alone, the environment not looked at
CommonValidateBaseOnly(env, base, inherit) ==
    IF inherit /\ base = EmptyStr THEN "'base' must be provided"
    ELSE IF inherit /\ ~Contains(base, Colon) THEN "'base' must be in format <pkg_name>:<config_set>"
    ELSE "ok"

\* CommonRuntime.Validate
CommonValidate(env, base, inherit) ==
    IF \E k \in Keys(env) : Contains(k, Space) \/ Contains(env.m[k], Space)
    THEN "spaces not allowed in env key/value"
    ELSE IF inherit /\ base = EmptyStr THEN "'base' must be provided"
    ELSE IF inherit /\ ~Contains(base, Colon) THEN "'base' must be in format <pkg_name>:<config_set>"
    ELSE "ok"

(* ------------------------------ variants ------------------------------ *)

Native == "native"
Java == "java"

NativeRuntime(bootcmd, base, env) ==
    [kind |-> Native, Env |-> env, Base |-> base, BootCmd |-> bootcmd,
     Xms |-> EmptyStr, Xmx |-> EmptyStr, Classpath |-> NilList, JvmArgs |-> NilList,
     Main |-> EmptyStr, Args |-> NilList]

JavaRuntime(main, classpath, args, base, env) ==
    [kind |-> Java, Env |-> env, Base |-> base, BootCmd |-> EmptyStr,
     Xms |-> EmptyStr, Xmx |-> EmptyStr, Classpath |-> classpath, JvmArgs |-> NilList,
     Main |-> main, Args |-> args]

\* validation asking for the required fields of inheriting variants too
ValidateRequiredAlways(v) ==
    IF v.kind = Native /\ v.BootCmd = EmptyStr THEN "'bootcmd' must be provided"
    ELSE IF v.kind = Java /\ v.Main = EmptyStr THEN "'main' must be provided"
    ELSE IF v.kind = Java /\ v.Classpath.nil THEN "'classpath' must be provided"
    ELSE CommonValidate(v.Env, v.Base, v.Base # EmptyStr)

\* nativeRuntime.Validate and javaRuntime.Validate
Validate(v) ==
    LET inherit == v.Base # EmptyStr
    IN  IF v.kind = Native
        THEN IF ~inherit /\ v.BootCmd = EmptyStr THEN "'bootcmd' must be provided"
             ELSE CommonValidate(v.Env, v.Base, inherit)
        ELSE IF ~inherit /\ v.Main = EmptyStr THEN "'main' must be provided"
             ELSE IF ~inherit /\ v.Classpath.nil THEN "'classpath' must be provided"
             ELSE CommonValidate(v.Env, v.Base, inherit)

\* javaRuntime.concatJvmArgs
concatJvmArgs(v) ==
    LET res == Join(v.JvmArgs.l, Space)
    IN  IF res = EmptyStr THEN << "-Dx=y" >> ELSE res

JavaPkg == << "openjdk8-zulu-compact1" >>

\* the base javaRuntime.GetBootCmd assigns to its copy of the receiver
JavaBase == JavaPkg \o << Colon, "java" >>

\* the defaults javaRuntime.GetBootCmd hands to setDefaultEnv
JavaDefaults(v) ==
    MkMap((<< "XMS" >> :> v.Xms) @@ (<< "XMX" >> :> v.Xmx)
          @@ (<< "CLASSPATH" >> :> Join(v.Classpath.l, Colon))
          @@ (<< "JVM_ARGS" >> :> concatJvmArgs(v))
          @@ (<< "MAIN" >> :> v.Main)
          @@ (<< "ARGS" >> :> Join(v.Args.l, Space)))

(* ------------------------------ universe ------------------------------ *)

P1 == << "p1" >>
P2 == << "p2" >>
Run == << "run" >>
Alt == << "alt" >>
JavaSet == << "java" >>
X == << "X" >>
Y == << "Y" >>
App == << "/bin/app" >>
Other == << "/bin/other" >>
JavaSo == << "/java.so" >>

Ref(pkg, cs) == pkg \o << Colon >> \o cs

\* CmdConfig: what parsing one meta/run.yaml yields; NilConfig is the nil *CmdConfig
CmdConfig(rt, sets) == [nil |-> FALSE, RuntimeType |-> rt, ConfigSets |-> sets]

NilConfig == [nil |-> TRUE, RuntimeType |-> Native, ConfigSets |-> << >>]

EnvX1 == MkMap(X :> << "1" >>)
EnvX2 == MkMap(X :> << "2" >>)
EnvX2Y5 == MkMap((X :> << "2" >>) @@ (Y :> << "5" >>))
EnvY5 == MkMap(Y :> << "5" >>)
EnvJvm == MkMap(<< "MAIN" >> :> << "none" >>)

JavaApp(classpath, base, env) == JavaRuntime(<< "M" >>, MkList(classpath), NilList, base, env)

\* the manifests a package of each name may come with
ManifestsOf(pkg) ==
    IF pkg = P1 THEN
      { CmdConfig(Native, Run :> NativeRuntime(App, EmptyStr, EnvX1)),
        CmdConfig(Java, (Run :> JavaApp(<< >>, EmptyStr, EnvX1))
                        @@ (Alt :> JavaApp(<< << "/" >> >>, EmptyStr, NilMap))),
        CmdConfig(Native, Run :> NativeRuntime(App, Ref(P2, << "nope" >>), EnvX1)),
        CmdConfig(Native, (Run :> NativeRuntime(EmptyStr, << "nocolon" >>, NilMap))
                          @@ (Alt :> NativeRuntime(App, EmptyStr, MkMap(<< >>)))),
        CmdConfig(Java, Run :> JavaRuntime(<< "M" >>, MkList(<< >>),
                                           MkList(<< << "a" >>, << "b" >> >>), EmptyStr, NilMap)),
        NilConfig }
    ELSE IF pkg = P2 THEN
      { CmdConfig(Native, Run :> NativeRuntime(EmptyStr, Ref(P1, Run), EnvX2Y5)),
        CmdConfig(Native, (Run :> NativeRuntime(Other, EmptyStr, NilMap))
                          @@ (Alt :> NativeRuntime(EmptyStr, Ref(P1, Run), EnvX2))),
        CmdConfig(Native, (Run :> NativeRuntime(EmptyStr, Ref(P2, Alt), EnvX2))
                          @@ (Alt :> NativeRuntime(EmptyStr, Ref(P2, Alt), EnvY5))),
        CmdConfig(Java, Run :> JavaRuntime(EmptyStr, NilList, NilList, Ref(P1, Run), EnvY5)),
        NilConfig }
    ELSE
      { CmdConfig(Native, (JavaSet :> NativeRuntime(JavaSo, EmptyStr, EnvJvm))
                          @@ (Alt :> NativeRuntime(EmptyStr, Ref(P1, Run), EnvX2))),
        CmdConfig(Java, JavaSet :> JavaApp(<< >>, EmptyStr, NilMap)),
        NilConfig }

PkgNames == { P1, P2, JavaPkg }

\* the most packages registered before the pass
MaxOrder == 2

\* the deepest chain of GetBootCmd calls followed
MaxDepth == 4

(* ------------------------------- state -------------------------------- *)

VARIABLES
    cmdConfigs,  \* AllCmdConfigs.cmdConfigs: package name -> CmdConfig
    order,       \* AllCmdConfigs.order
    stack,       \* the GetBootCmd calls in progress, the innermost last
    ret,         \* what the call that returned last returned
    call,        \* the outermost GetBootCmd call, the registry when it was made (cfg0)
                 \* and when it reached BuildBootCmd (cfg1)
    ppc,         \* where Persist is
    pidx,        \* Persist: index into order
    pdone,       \* Persist: the configuration sets of the current package already visited
    pconf,       \* Persist: confName
    perr,        \* Persist: the error returned
    files,       \* the files of the run directory: name -> content
    gen,         \* the boot command GetBootCmd returned for each <<package, set>> of the pass
    log,         \* the steps of the pass, in order
    probe        \* a call of a function of the package on its own: its arguments and
                 \* what it returned

vars == << cmdConfigs, order, stack, ret, call, ppc, pidx, pdone, pconf, perr, files, gen, log, probe >>

pvars == << ppc, pidx, pdone, pconf, perr, files, gen, log >>

NoRet == [kind |-> "none", cmd |-> EmptyStr, err |-> ""]
RetCmd(c) == [kind |-> "cmd", cmd |-> c, err |-> ""]
RetErr(e) == [kind |-> "err", cmd |-> EmptyStr, err |-> e]
RetPanic == [kind |-> "panic", cmd |-> EmptyStr, err |-> "index out of range"]

NoCall == [by |-> "none", pkg |-> EmptyStr, cs |-> EmptyStr, cfg0 |-> << >>, cfg1 |-> << >>]

\* no function is called on its own
NoProbe == [op |-> "none", done |-> TRUE, r |-> NilConfig, name |-> EmptyStr,
            v |-> NativeRuntime(EmptyStr, EmptyStr, NilMap), env |-> NilMap,
            out |-> [err |-> "", val |-> << >>]]

Registered(cfgs, pkg) == pkg \in DOMAIN cfgs /\ ~cfgs[pkg].nil

HasSet(cfgs, pkg, cs) == Registered(cfgs, pkg) /\ cs \in DOMAIN cfgs[pkg].ConfigSets

Variant(cfgs, pkg, cs) == cfgs[pkg].ConfigSets[cs]

\* the registry with the Env map of pkg:cs holding the entries of env
WithEnv(cfgs, pkg, cs, env) ==
    [cfgs EXCEPT ![pkg].ConfigSets[cs].Env = env]

Init ==
    /\ cmdConfigs = << >>
    /\ order = << >>
    /\ stack = << >>
    /\ ret = NoRet
    /\ call = NoCall
    /\ ppc = "idle"
    /\ pidx = 0
    /\ pdone = {}
    /\ pconf = EmptyStr
    /\ perr = ""
    /\ files = << >>
    /\ gen = << >>
    /\ log = << >>
    /\ probe = NoProbe

\* AllCmdConfigs.Add
Add(pkgName, cmdConfig) ==
    /\ ppc = "idle" /\ call = NoCall
    /\ Len(order) < MaxOrder
    /\ cmdConfigs' = [p \in DOMAIN cmdConfigs \cup {pkgName} |->
                        IF p = pkgName THEN cmdConfig ELSE cmdConfigs[p]]
    /\ order' = Append(order, pkgName)
    /\ UNCHANGED << probe, stack, ret, call, pvars >>

(* ------------------------------ resolver ------------------------------ *)

Frame(pkg, cs, base, shared, priv, bootCmd) ==
    [pkg |-> pkg, cs |-> cs, Base |-> base, shared |-> shared, priv |-> priv,
     bootCmd |-> bootCmd, pc |-> "build",
     tpkg |-> EmptyStr, tcs |-> EmptyStr, env_orig |-> NilMap, updatedKeys |-> << >>]

\* nativeRuntime.GetBootCmd up to its call of BuildBootCmd: the receiver is a copy
\* whose Env is the map of the stored variant
NativeGetBootCmd(cfgs, pkg, cs) ==
    LET v == Variant(cfgs, pkg, cs)
    IN  [frame |-> Frame(pkg, cs, v.Base, TRUE, NilMap, v.BootCmd), cfgs |-> cfgs]

\* the base of the copy javaRuntime.GetBootCmd works on
JavaGetBase(v) == JavaBase

\* javaRuntime.GetBootCmd up to its call of BuildBootCmd: setDefaultEnv writes
\* into the map of the stored variant, or into a map of the copy when that is nil
JavaGetBootCmd(cfgs, pkg, cs) ==
    LET v == Variant(cfgs, pkg, cs)
        env == setDefaultEnv(v.Env, JavaDefaults(v))
    IN  IF v.Env.nil
        THEN [frame |-> Frame(pkg, cs, JavaGetBase(v), FALSE, env, EmptyStr), cfgs |-> cfgs]
        ELSE [frame |-> Frame(pkg, cs, JavaGetBase(v), TRUE, NilMap, EmptyStr),
              cfgs |-> WithEnv(cfgs, pkg, cs, env)]

\* Runtime.GetBootCmd, dispatched on the variant
GetBootCmd(cfgs, pkg, cs) ==
    IF Variant(cfgs, pkg, cs).kind = Java
    THEN JavaGetBootCmd(cfgs, pkg, cs)
    ELSE NativeGetBootCmd(cfgs, pkg, cs)

Top == stack[Len(stack)]

Pop == SubSeq(stack, 1, Len(stack) - 1)

\* r.Env of the call f: the map its receiver holds
FrameEnv(cfgs, f) == IF f.shared THEN Variant(cfgs, f.pkg, f.cs).Env ELSE f.priv

\* the package inheritBootCmd looks up
pkgName(f) == SplitN2(f.Base)[1]

\* the configuration set inheritBootCmd looks up
configSet(f) == SplitN2(f.Base)[2]

ErrNoPackage == "package not included or has no meta/run.yaml"

ErrNoConfigSet == "config_set does not exist"

\* the lookups without the test for a nil CmdConfig
LookupPkgOnly(cfgs, f) ==
    IF ~(pkgName(f) \in DOMAIN cfgs) THEN ErrNoPackage
    ELSE IF ~(configSet(f) \in DOMAIN cfgs[pkgName(f)].ConfigSets) THEN ErrNoConfigSet
    ELSE "ok"

\* inheritBootCmd's two lookups: "ok" or the error it returns
Lookup(cfgs, f) ==
    IF ~(pkgName(f) \in DOMAIN cfgs) \/ cfgs[pkgName(f)].nil THEN ErrNoPackage
    ELSE IF ~(configSet(f) \in DOMAIN cfgs[pkgName(f)].ConfigSets) THEN ErrNoConfigSet
    ELSE "ok"

\* a failed lookup returning the empty command and no error
UnresolvedResultNil(e) == RetCmd(EmptyStr)

\* what inheritBootCmd returns when a lookup fails
UnresolvedResult(e) == RetErr(e)

\* BuildBootCmd, r.Base empty: the environment is prepended to the variant's command
BuildTerminal ==
    /\ stack # << >> /\ Top.pc = "build" /\ Top.Base = EmptyStr
    /\ \E ord \in Perms(Keys(FrameEnv(cmdConfigs, Top))) :
         ret' = RetCmd(PrependEnvsPrefix(Top.bootCmd, FrameEnv(cmdConfigs, Top), TerminalSoft, ord))
    /\ stack' = Pop
    /\ UNCHANGED << probe, cmdConfigs, order, call, pvars >>

\* inheritBootCmd, r.Base without ":": parts[1] is out of range
InheritPanic ==
    /\ stack # << >> /\ Top.pc = "build" /\ Top.Base # EmptyStr
    /\ Len(SplitN2(Top.Base)) < 2
    /\ ret' = RetPanic
    /\ stack' = << >>
    /\ UNCHANGED << probe, cmdConfigs, order, call, pvars >>

\* inheritBootCmd, the package or the configuration set is not there
InheritUnresolved ==
    /\ stack # << >> /\ Top.pc = "build" /\ Top.Base # EmptyStr
    /\ Len(SplitN2(Top.Base)) = 2
    /\ Lookup(cmdConfigs, Top) # "ok"
    /\ ret' = UnresolvedResult(Lookup(cmdConfigs, Top))
    /\ stack' = Pop
    /\ UNCHANGED << probe, cmdConfigs, order, call, pvars >>

\* inheritBootCmd up to original.GetBootCmd: snapshot, push of r.Env, call
InheritCall ==
    /\ stack # << >> /\ Top.pc = "build" /\ Top.Base # EmptyStr
    /\ Len(SplitN2(Top.Base)) = 2
    /\ Lookup(cmdConfigs, Top) = "ok"
    /\ Len(stack) < MaxDepth
    /\ LET tp == pkgName(Top)
           tc == configSet(Top)
           original == Variant(cmdConfigs, tp, tc)
           env_orig == DeepCopyMap(original.Env)
           rEnv == FrameEnv(cmdConfigs, Top)
           forced == WithEnv(cmdConfigs, tp, tc, ForceEnvMap(original.Env, rEnv))
           callee == GetBootCmd(forced, tp, tc)
       IN  \E ord \in Perms(ForceEnvKeys(original.Env, rEnv)) :
             /\ stack' = Append([stack EXCEPT ![Len(stack)] =
                                   [@ EXCEPT !.pc = "await", !.tpkg = tp, !.tcs = tc,
                                             !.env_orig = env_orig,
                                             !.updatedKeys = ForceEnvUpdated(ord)]],
                                callee.frame)
             /\ cmdConfigs' = callee.cfgs
    /\ ret' = NoRet
    /\ UNCHANGED << probe, order, call, pvars >>

\* inheritBootCmd, original.GetBootCmd returned an error
InheritFailed ==
    /\ stack # << >> /\ Top.pc = "await" /\ ret.kind = "err"
    /\ stack' = Pop
    /\ UNCHANGED << probe, cmdConfigs, ret, order, call, pvars >>

\* inheritBootCmd after original.GetBootCmd returned a command: revert, then
\* prepend the entries of r.Env whose keys the base did not take
InheritReturn ==
    /\ stack # << >> /\ Top.pc = "await" /\ ret.kind = "cmd"
    /\ LET reverted == WithEnv(cmdConfigs, Top.tpkg, Top.tcs,
                               ForceEnvMap(Variant(cmdConfigs, Top.tpkg, Top.tcs).Env, Top.env_orig))
           env == ExcludeFromMap(FrameEnv(reverted, Top), Top.updatedKeys)
       IN  /\ cmdConfigs' = reverted
           /\ \E ord \in Perms(Keys(env)) :
                ret' = RetCmd(PrependEnvsPrefix(ret.cmd, env, InheritSoft, ord))
    /\ stack' = Pop
    /\ UNCHANGED << probe, order, call, pvars >>

\* GetBootCmd called on a configuration set from outside the pass
DirectCall(pkg, cs) ==
    /\ ppc = "idle" /\ stack = << >>
    /\ HasSet(cmdConfigs, pkg, cs)
    /\ LET g == GetBootCmd(cmdConfigs, pkg, cs)
       IN  /\ stack' = << g.frame >>
           /\ cmdConfigs' = g.cfgs
    /\ call' = [by |-> "direct", pkg |-> pkg, cs |-> cs, cfg0 |-> cmdConfigs,
                cfg1 |-> GetBootCmd(cmdConfigs, pkg, cs).cfgs]
    /\ ret' = NoRet
    /\ UNCHANGED << probe, order, pvars >>

(* ------------------------------- persist ------------------------------ *)

Event(op, res) == [op |-> op, idx |-> pidx, pkg |-> order[pidx], cs |-> pconf, res |-> res]

ErrMkdir == "mkdir failed"

ErrWrite == "write failed"

\* Persist, the run directory is there or is created
PersistStart ==
    /\ ppc = "idle" /\ stack = << >>
    /\ ppc' = "loop" /\ pidx' = 1 /\ pdone' = {}
    /\ UNCHANGED << probe, cmdConfigs, order, stack, ret, call, pconf, perr, files, gen, log >>

\* Persist, os.MkdirAll fails
PersistMkdirFail ==
    /\ ppc = "idle" /\ stack = << >>
    /\ ppc' = "failed" /\ perr' = ErrMkdir
    /\ UNCHANGED << probe, cmdConfigs, order, stack, ret, call, pidx, pdone, pconf, files, gen, log >>

\* Persist, the loop over c.order is over
PersistDone ==
    /\ ppc = "loop" /\ pidx > Len(order)
    /\ ppc' = "done"
    /\ UNCHANGED << probe, cmdConfigs, order, stack, ret, call, pidx, pdone, pconf, perr, files, gen, log >>

\* Persist, a package with a nil CmdConfig is skipped
PersistSkipNil ==
    /\ ppc = "loop" /\ pidx <= Len(order)
    /\ cmdConfigs[order[pidx]].nil
    /\ pidx' = pidx + 1
    /\ UNCHANGED << probe, cmdConfigs, order, stack, ret, call, ppc, pdone, pconf, perr, files, gen, log >>

\* Persist, every configuration set of the package was visited
PersistNextPkg ==
    /\ ppc = "loop" /\ pidx <= Len(order)
    /\ ~cmdConfigs[order[pidx]].nil
    /\ DOMAIN cmdConfigs[order[pidx]].ConfigSets \subseteq pdone
    /\ pidx' = pidx + 1 /\ pdone' = {}
    /\ UNCHANGED << probe, cmdConfigs, order, stack, ret, call, ppc, pconf, perr, files, gen, log >>

\* Persist, the range loop over cmdConf.ConfigSets yields its next name
PersistPick ==
    /\ ppc = "loop" /\ pidx <= Len(order)
    /\ ~cmdConfigs[order[pidx]].nil
    /\ \E confName \in DOMAIN cmdConfigs[order[pidx]].ConfigSets \ pdone :
         pconf' = confName
    /\ ppc' = "validate"
    /\ UNCHANGED << probe, cmdConfigs, order, stack, ret, call, pidx, pdone, perr, files, gen, log >>

currConf == Variant(cmdConfigs, order[pidx], pconf)

\* the error of Validate dropped, the pass going on to write
ValidateIgnored == ppc' = "write" /\ perr' = perr

\* what Persist does when currConf.Validate() returns an error
ValidateFailed == ppc' = "failed" /\ perr' = Validate(currConf)

\* Persist, currConf.Validate() fails
PersistValidateFail ==
    /\ ppc = "validate"
    /\ Validate(currConf) # "ok"
    /\ ValidateFailed
    /\ log' = Append(log, Event("validate", "err"))
    /\ UNCHANGED << probe, cmdConfigs, order, stack, ret, call, pidx, pdone, pconf, files, gen >>

\* Persist, currConf.Validate() passes and currConf.GetBootCmd is called
PersistValidateOk ==
    /\ ppc = "validate"
    /\ Validate(currConf) = "ok"
    /\ LET g == GetBootCmd(cmdConfigs, order[pidx], pconf)
       IN  /\ stack' = << g.frame >>
           /\ cmdConfigs' = g.cfgs
    /\ call' = [by |-> "persist", pkg |-> order[pidx], cs |-> pconf, cfg0 |-> cmdConfigs,
                cfg1 |-> GetBootCmd(cmdConfigs, order[pidx], pconf).cfgs]
    /\ ret' = NoRet
    /\ ppc' = "build"
    /\ log' = Append(log, Event("validate", "ok"))
    /\ UNCHANGED << probe, order, pidx, pdone, pconf, perr, files, gen >>

\* what Persist does when currConf.GetBootCmd returns an error
BuildFailed == ppc' = "failed" /\ perr' = ret.err

\* Persist, currConf.GetBootCmd returned an error
PersistBuildFail ==
    /\ ppc = "build" /\ stack = << >> /\ ret.kind = "err"
    /\ BuildFailed
    /\ log' = Append(log, Event("build", "err"))
    /\ UNCHANGED << probe, cmdConfigs, order, stack, ret, call, pidx, pdone, pconf, files, gen >>

\* Persist, currConf.GetBootCmd panicked
PersistBuildPanic ==
    /\ ppc = "build" /\ stack = << >> /\ ret.kind = "panic"
    /\ ppc' = "panic"
    /\ log' = Append(log, Event("build", "panic"))
    /\ UNCHANGED << probe, cmdConfigs, order, stack, ret, call, pidx, pdone, pconf, perr, files, gen >>

\* Persist, currConf.GetBootCmd returned the boot command
PersistBuilt ==
    /\ ppc = "build" /\ stack = << >> /\ ret.kind = "cmd"
    /\ ppc' = "write"
    /\ gen' = [k \in DOMAIN gen \cup { << order[pidx], pconf >> } |->
                 IF k = << order[pidx], pconf >> THEN ret.cmd ELSE gen[k]]
    /\ log' = Append(log, Event("build", "ok"))
    /\ UNCHANGED << probe, cmdConfigs, order, stack, ret, call, pidx, pdone, pconf, perr, files >>

\* the file ioutil.WriteFile writes the boot command to
cmdFile == pconf

\* Persist, the boot command is written to targetDir/confName
PersistWrite ==
    /\ ppc = "write"
    /\ files' = [n \in DOMAIN files \cup { cmdFile } |-> IF n = cmdFile THEN ret.cmd ELSE files[n]]
    /\ pdone' = pdone \cup { pconf }
    /\ ppc' = "loop"
    /\ log' = Append(log, Event("write", "ok"))
    /\ UNCHANGED << probe, cmdConfigs, order, stack, ret, call, pidx, pconf, perr, gen >>

\* Persist, ioutil.WriteFile fails
PersistWriteFail ==
    /\ ppc = "write"
    /\ ppc' = "failed" /\ perr' = ErrWrite
    /\ log' = Append(log, Event("write", "err"))
    /\ UNCHANGED << probe, cmdConfigs, order, stack, ret, call, pidx, pdone, pconf, files, gen >>

(* ---------------------------- specification --------------------------- *)

Resolve ==
    \/ BuildTerminal
    \/ InheritPanic
    \/ InheritUnresolved
    \/ InheritCall
    \/ InheritFailed
    \/ InheritReturn

Persist ==
    \/ PersistStart
    \/ PersistMkdirFail
    \/ PersistDone
    \/ PersistSkipNil
    \/ PersistNextPkg
    \/ PersistPick
    \/ PersistValidateFail
    \/ PersistValidateOk
    \/ PersistBuildFail
    \/ PersistBuildPanic
    \/ PersistBuilt
    \/ PersistWrite
    \/ PersistWriteFail

Next ==
    \/ \E pkg \in PkgNames : \E m \in ManifestsOf(pkg) : Add(pkg, m)
    \/ \E pkg \in PkgNames : \E cs \in { Run, Alt, JavaSet } : DirectCall(pkg, cs)
    \/ Resolve
    \/ Persist

Spec == Init /\ [][Next]_vars

\* the resolver is sequential code: a call in progress takes its next step
FairSpec == Spec /\ WF_vars(Resolve)

(* ----------------------- functions on their own ----------------------- *)

\* keysOfMap, the range loop visiting the keys in order ord
keysOfMap(ord) == ord

\* the result of selectConfigSetByName: a Runtime or an error with the names it lists
Selected(v) == [err |-> "", val |-> v]

ErrAmbiguous == "Neither --runconfig <name> is provided, nor config_set_default is set"

ErrNotOneOf == "Configuration set name not one of"

SelectError(e, name, availableNames) == [err |-> e, val |-> [name |-> name, names |-> availableNames]]

\* selection that takes some set when no name is given, however many there are
selectAnyConfigSet(r, name, ord) ==
    IF name = EmptyStr /\ Cardinality(DOMAIN r.ConfigSets) >= 1
    THEN Selected(r.ConfigSets[ord[1]])
    ELSE IF name \notin DOMAIN r.ConfigSets
    THEN SelectError(ErrNotOneOf, name, keysOfMap(ord))
    ELSE Selected(r.ConfigSets[name])

\* CmdConfig.selectConfigSetByName
selectConfigSetByName(r, name, ord) ==
    LET availableNames == keysOfMap(ord)
    IN  IF name = EmptyStr /\ Cardinality(DOMAIN r.ConfigSets) = 1
        THEN Selected(r.ConfigSets[CHOOSE k \in DOMAIN r.ConfigSets : TRUE])
        ELSE IF name = EmptyStr
        THEN SelectError(ErrAmbiguous, name, availableNames)
        ELSE IF name \notin DOMAIN r.ConfigSets
        THEN SelectError(ErrNotOneOf, name, availableNames)
        ELSE Selected(r.ConfigSets[name])

\* CommonRuntime.ForceEnv: the receiver's map after the call and the list returned
ForceEnv(target, env, ord) ==
    [err |-> "", val |-> [Env |-> ForceEnvMap(target, env), updated |-> ForceEnvUpdated(ord)]]

SpaceKey == << "A", Space, "B" >>

SpaceVal == << "1", Space, "2" >>

\* the names a configuration set may go by, and a variant to tell each by
SetNames == { Run, Alt, JavaSet }

SetOf(name) == NativeRuntime(<< "/bin" >> \o name, EmptyStr, NilMap)

\* the manifests selection is run on: one set or more (ParsePackageRunManifestData
\* refuses a manifest without a set)
SelectConfigs ==
    { CmdConfig(Native, [n \in D |-> SetOf(n)]) : D \in (SUBSET SetNames) \ { {} } }

SelectNames == SetNames \cup { EmptyStr }

ValidateEnvs ==
    { NilMap, MkMap(<< >>), EnvX1, EnvX2Y5,
      MkMap(SpaceKey :> << "1" >>), MkMap(X :> SpaceVal),
      MkMap((X :> << "1" >>) @@ (SpaceKey :> SpaceVal)) }

ValidateBases == { EmptyStr, << "nocolon" >>, Ref(P1, Run), << Colon >> }

\* the variants Validate is run on
ValidateVariants ==
    { NativeRuntime(b, base, env) :
        b \in { EmptyStr, App }, base \in ValidateBases, env \in ValidateEnvs }
    \cup
    { JavaRuntime(main, cp, NilList, base, env) :
        main \in { EmptyStr, << "M" >> },
        cp \in { NilList, MkList(<< >>), MkList(<< << "/" >> >>) },
        base \in ValidateBases, env \in ValidateEnvs }

\* the maps ForceEnv is run on, as receiver's Env and as argument
ForceTargets == { NilMap } \cup { MkMap([k \in D |-> << "1" >>]) : D \in SUBSET { X, Y, EmptyStr } }

ForceValues == { NilMap } \cup { MkMap([k \in D |-> << "2" >>]) : D \in SUBSET { X, Y, EmptyStr } }

Probe(op, r, name, v, env) ==
    [op |-> op, done |-> FALSE, r |-> r, name |-> name, v |-> v, env |-> env,
     out |-> NoProbe.out]

FnInit ==
    /\ cmdConfigs = << >> /\ order = << >> /\ stack = << >>
    /\ ret = NoRet /\ call = NoCall
    /\ ppc = "idle" /\ pidx = 0 /\ pdone = {} /\ pconf = EmptyStr /\ perr = ""
    /\ files = << >> /\ gen = << >> /\ log = << >>
    /\ probe \in { Probe("select", r, n, NoProbe.v, NilMap) : r \in SelectConfigs, n \in SelectNames }
            \cup { Probe("validate", NilConfig, EmptyStr, v, NilMap) : v \in ValidateVariants }
            \cup { Probe("force", NilConfig, EmptyStr,
                         NativeRuntime(EmptyStr, EmptyStr, t), e) : t \in ForceTargets, e \in ForceValues }

mainvars == << cmdConfigs, order, stack, ret, call, ppc, pidx, pdone, pconf, perr, files, gen, log >>

\* r.selectConfigSetByName(name)
SelectStep ==
    /\ probe.op = "select" /\ ~probe.done
    /\ \E ord \in Perms(DOMAIN probe.r.ConfigSets) :
         probe' = [probe EXCEPT !.done = TRUE,
                                !.out = selectConfigSetByName(probe.r, probe.name, ord)]
    /\ UNCHANGED mainvars

\* conf.Validate()
ValidateStep ==
    /\ probe.op = "validate" /\ ~probe.done
    /\ probe' = [probe EXCEPT !.done = TRUE, !.out = [err |-> Validate(probe.v), val |-> << >>]]
    /\ UNCHANGED mainvars

\* r.ForceEnv(env)
ForceEnvStep ==
    /\ probe.op = "force" /\ ~probe.done
    /\ \E ord \in Perms(ForceEnvKeys(probe.v.Env, probe.env)) :
         probe' = [probe EXCEPT !.done = TRUE, !.out = ForceEnv(probe.v.Env, probe.env, ord)]
    /\ UNCHANGED mainvars

FnNext == SelectStep \/ ValidateStep \/ ForceEnvStep

FnSpec == FnInit /\ [][FnNext]_vars

(* ------------------------- reading the results ------------------------ *)

RECURSIVE Fields(_)
\* the space-separated fields of a command text
Fields(text) ==
    IF ~Contains(text, Space) THEN << text >>
    ELSE LET i == FirstIndex(text, Space)
         IN  << SubSeq(text, 1, i-1) >> \o Fields(SubSeq(text, i+1, Len(text)))

Last(s) == s[Len(s)]

Front(s) == SubSeq(s, 1, Len(s) - 1)

HardToken(k, v) == << "--env=" >> \o k \o << "=" >> \o v

SoftToken(k, v) == << "--env=" >> \o k \o << "?=" >> \o v

\* the text is exactly the tokens of toks, each once and in any order, then cmd
TokensThenCmd(text, toks, cmd) ==
    /\ Last(Fields(text)) = cmd
    /\ SeqRange(Front(Fields(text))) = toks
    /\ Len(Fields(text)) = Cardinality(toks) + 1

\* the outermost call is over
Ended == call.by # "none" /\ stack = << >> /\ ret.kind # "none"

\* the configuration set the outermost call was made on, as it was then
CallSet == Variant(call.cfg0, call.pkg, call.cs)

\* the receiver BuildBootCmd ran on in the outermost call
CallFrame == GetBootCmd(call.cfg0, call.pkg, call.cs).frame

WellFormed(base) == Len(SplitN2(base)) = 2

\* base names a configuration set of a package registered with a manifest
Resolves(cfgs, base) ==
    /\ WellFormed(base)
    /\ HasSet(cfgs, SplitN2(base)[1], SplitN2(base)[2])

BaseSet(cfgs, base) == Variant(cfgs, SplitN2(base)[1], SplitN2(base)[2])

(* ------------------------------- claims ------------------------------- *)

\* C1: inheritance precedence. When GetBootCmd on a native set S whose Base names a
\* native set B with empty Base has returned a command, the command is B's bootcmd
\* preceded by exactly: a hard token K=S.Env[K] for every key of both, a hard token
\* K=B.Env[K] for every key of B alone, a soft token K?=S.Env[K] for every key of S
\* alone.
C1_InheritancePrecedence ==
    (/\ Ended /\ ret.kind = "cmd"
     /\ CallSet.kind = Native /\ Resolves(call.cfg0, CallSet.Base)
     /\ BaseSet(call.cfg0, CallSet.Base).kind = Native
     /\ BaseSet(call.cfg0, CallSet.Base).Base = EmptyStr)
    => LET S == CallSet.Env
           B == BaseSet(call.cfg0, CallSet.Base).Env
       IN  TokensThenCmd(ret.cmd,
               { HardToken(k, S.m[k]) : k \in Keys(S) \cap Keys(B) }
               \cup { HardToken(k, B.m[k]) : k \in Keys(B) \ Keys(S) }
               \cup { SoftToken(k, S.m[k]) : k \in Keys(S) \ Keys(B) },
               BaseSet(call.cfg0, CallSet.Base).BootCmd)

\* C2: terminal mode. When GetBootCmd on a native set with empty Base has returned,
\* the command is the set's bootcmd preceded by exactly one hard token K=V for
\* every entry of its Env, and by no soft token.
C2_TerminalHardTokens ==
    (Ended /\ ret.kind = "cmd" /\ CallSet.kind = Native /\ CallSet.Base = EmptyStr)
    => TokensThenCmd(ret.cmd,
                     { HardToken(k, CallSet.Env.m[k]) : k \in Keys(CallSet.Env) },
                     CallSet.BootCmd)

\* C3: no residue. When GetBootCmd on a native set whose Base names a set B, native
\* or Java, has returned a command, the stored Env of B has the keys and the values
\* it had before the call.
C3_NoResidue ==
    (/\ Ended /\ ret.kind = "cmd"
     /\ CallSet.kind = Native /\ Resolves(call.cfg0, CallSet.Base))
    => BaseSet(cmdConfigs, CallSet.Base).Env.m = BaseSet(call.cfg0, CallSet.Base).Env.m

\* C4: the push is reverted on every return. When inheritBootCmd on a native base
\* has returned an error, the stored Env of the base is what it was on entry.
C4_RevertedOnError ==
    (/\ Ended /\ ret.kind = "err"
     /\ Resolves(call.cfg1, CallFrame.Base)
     /\ BaseSet(call.cfg1, CallFrame.Base).kind = Native)
    => BaseSet(cmdConfigs, CallFrame.Base).Env.m = BaseSet(call.cfg1, CallFrame.Base).Env.m

\* the log is the pass's own order: each set validated, then resolved, then written,
\* the packages in the order of registration
InPassOrder ==
    \A i \in 1..Len(log) :
      /\ i > 1 => log[i-1].idx <= log[i].idx
      /\ log[i].pkg = order[log[i].idx]
      /\ log[i].op = "validate" => (i = 1 \/ log[i-1].op = "write")
      /\ log[i].op = "build" =>
           i > 1 /\ log[i-1].op = "validate" /\ log[i-1].idx = log[i].idx /\ log[i-1].cs = log[i].cs
      /\ log[i].op = "write" =>
           i > 1 /\ log[i-1].op = "build" /\ log[i-1].idx = log[i].idx /\ log[i-1].cs = log[i].cs

\* C5: fail-fast pass. Persist visits the packages in registration order and, for
\* each configuration set, validates, then resolves, then writes; a validate or a
\* GetBootCmd that fails is the last step of the pass, Persist has then returned
\* that error, and only the sets written before it have a file.
C5_FailFast ==
    /\ InPassOrder
    /\ \A i \in 1..Len(log) : i < Len(log) => log[i].res = "ok"
    /\ (log # << >> /\ Last(log).res = "err") =>
          /\ ppc = "failed" /\ stack = << >>
          /\ Last(log).op = "validate" =>
               perr = Validate(Variant(cmdConfigs, Last(log).pkg, Last(log).cs)) /\ perr # "ok"
          /\ Last(log).op = "build" => perr = ret.err /\ ret.kind = "err"
    /\ DOMAIN files = { log[i].cs : i \in { j \in 1..Len(log) : log[j].op = "write" /\ log[j].res = "ok" } }

\* C5 witness: the pass has failed in GetBootCmd after a set was written, with a
\* registered package still to come.
C5_Witness ==
    /\ ppc = "failed" /\ Len(log) > 3
    /\ Last(log).op = "build" /\ Last(log).res = "err"
    /\ pidx < Len(order) /\ ~cmdConfigs[order[Len(order)]].nil

\* C6: one artifact per configuration set. After Persist has returned nil, every
\* configuration set n of every registered package P has a file named n holding
\* the boot command generated for P's n.
C6_OneArtifactPerSet ==
    ppc = "done" =>
      \A i \in 1..Len(order) :
        ~cmdConfigs[order[i]].nil =>
          \A n \in DOMAIN cmdConfigs[order[i]].ConfigSets :
            n \in DOMAIN files /\ files[n] = gen[<< order[i], n >>]

\* the base BuildBootCmd saw for the set of the i-th step of the pass
StepBase(i) == GetBootCmd(cmdConfigs, log[i].pkg, log[i].cs).frame.Base

Resolved(i) == log[i].op = "build" /\ log[i].res = "ok" /\ StepBase(i) # EmptyStr

NoPackage(cfgs, base) == ~(SplitN2(base)[1] \in DOMAIN cfgs) \/ cfgs[SplitN2(base)[1]].nil

NoConfigSet(cfgs, base) ==
    ~NoPackage(cfgs, base) /\ ~(SplitN2(base)[2] \in DOMAIN cfgs[SplitN2(base)[1]].ConfigSets)

RECURSIVE Cyclic(_, _, _, _)
\* the chain of bases BuildBootCmd follows from pkg:cs comes back to a set it left
Cyclic(cfgs, pkg, cs, seen) ==
    LET base == GetBootCmd(cfgs, pkg, cs).frame.Base
    IN  IF << pkg, cs >> \in seen THEN TRUE
        ELSE IF base = EmptyStr \/ ~Resolves(cfgs, base) THEN FALSE
        ELSE Cyclic(cfgs, SplitN2(base)[1], SplitN2(base)[2], seen \cup { << pkg, cs >> })

\* C9: termination. A call of GetBootCmd on a set that passes Validate, once over,
\* was made on a set whose chain of bases has no cycle, and it has returned a
\* command or an error.
C9_ReturnsIffAcyclic ==
    (Ended /\ Validate(CallSet) = "ok")
    => /\ ~Cyclic(call.cfg0, call.pkg, call.cs, {})
       /\ ret.kind \in { "cmd", "err" }

\* a call on a set whose chain of bases has a cycle is never over
C9_CyclicNeverReturns ==
    (call.by # "none" /\ Cyclic(call.cfg0, call.pkg, call.cs, {})) => ~Ended

\* C10: mode selection. Every call of BuildBootCmd, for a native and for a Java
\* set alike, runs on the Base the set declares: terminal when that is empty,
\* against the package and set it names otherwise.
C10_ModeByDeclaredBase ==
    \A i \in 1..Len(stack) :
      stack[i].Base = Variant(cmdConfigs, stack[i].pkg, stack[i].cs).Base

\* a call of the function op on its own has returned
Returned(op) == probe.op = op /\ probe.done

SetNamesOf(r) == DOMAIN r.ConfigSets

\* some key or some value of env contains a space
HasSpace(env) == \E k \in Keys(env) : Contains(k, Space) \/ Contains(env.m[k], Space)

ErrRequired == { "'bootcmd' must be provided", "'main' must be provided", "'classpath' must be provided" }

\* C11: selection of a configuration set. With a non-empty name selectConfigSetByName
\* returns the set of that name if there is one and otherwise the not-found error
\* whose message lists exactly the names of the manifest; with no name and one set
\* it returns that set; with no name and two sets or more it returns the ambiguity
\* error whose message lists exactly the names of the manifest.
C11_Selection ==
    Returned("select") =>
      LET r == probe.r
          name == probe.name
          out == probe.out
      IN  /\ (name # EmptyStr /\ name \in SetNamesOf(r))
                => out = Selected(r.ConfigSets[name])
          /\ (name # EmptyStr /\ name \notin SetNamesOf(r))
                => /\ out.err = ErrNotOneOf
                   /\ out.val.name = name
                   /\ Len(out.val.names) = Cardinality(SetNamesOf(r))
                   /\ SeqRange(out.val.names) = SetNamesOf(r)
          /\ (name = EmptyStr /\ Cardinality(SetNamesOf(r)) = 1)
                => \E k \in SetNamesOf(r) : out = Selected(r.ConfigSets[k])
          /\ (name = EmptyStr /\ Cardinality(SetNamesOf(r)) >= 2)
                => /\ out.err = ErrAmbiguous
                   /\ Len(out.val.names) = Cardinality(SetNamesOf(r))
                   /\ SeqRange(out.val.names) = SetNamesOf(r)

\* selection without a name on a manifest of two sets has returned the ambiguity error
C11_Witness ==
    /\ Returned("select") /\ probe.name = EmptyStr
    /\ Cardinality(SetNamesOf(probe.r)) = 2
    /\ probe.out.err = ErrAmbiguous

\* C12 as stated: for every variant, Validate fails if and only if some key or some
\* value of its Env contains a space.
C12_FailsIffSpace ==
    Returned("validate") => ((probe.out.err # "ok") <=> HasSpace(probe.v.Env))

\* C12, amended: Validate fails on every variant whose Env holds a space in a key
\* or a value; and on a variant that passes Validate with its Env taken away, it
\* fails if and only if some key or some value of the Env contains a space.
C12_SpaceAmongValid ==
    Returned("validate") =>
      /\ HasSpace(probe.v.Env) => probe.out.err # "ok"
      /\ Validate([probe.v EXCEPT !.Env = NilMap]) = "ok"
            => ((probe.out.err # "ok") <=> HasSpace(probe.v.Env))

\* Validate has failed, for the space in its Env, on a variant that passes without it
C12_Witness ==
    /\ Returned("validate") /\ HasSpace(probe.v.Env)
    /\ Validate([probe.v EXCEPT !.Env = NilMap]) = "ok"
    /\ probe.out.err = "spaces not allowed in env key/value"

\* a required field of the terminal variant v is unset: the bootcmd of a native
\* one, the main class or the classpath list (nil or without an element) of a Java one
RequiredUnset(v) ==
    IF v.kind = Native THEN v.BootCmd = EmptyStr
    ELSE v.Main = EmptyStr \/ v.Classpath.l = << >>

\* C13: for every variant with empty Base, Validate fails if and only if a required
\* field is unset, whatever the Env holds.
C13_TerminalRequiredFields ==
    (Returned("validate") /\ probe.v.Base = EmptyStr)
    => ((probe.out.err # "ok") <=> RequiredUnset(probe.v))

\* C14: for every variant with non-empty Base, Validate returns none of the errors
\* of an unset bootcmd, main or classpath, it passes when the Base holds a ":" and
\* the Env no space, and it fails when the Base holds no ":".
C14_InheritingValidate ==
    (Returned("validate") /\ probe.v.Base # EmptyStr)
    => /\ probe.out.err \notin ErrRequired
       /\ (Contains(probe.v.Base, Colon) /\ ~HasSpace(probe.v.Env)) => probe.out.err = "ok"
       /\ ~Contains(probe.v.Base, Colon) => probe.out.err # "ok"

\* Validate has passed on an inheriting variant none of whose required fields is set
C14_Witness ==
    /\ Returned("validate") /\ probe.v.Base # EmptyStr
    /\ probe.v.BootCmd = EmptyStr /\ probe.v.Main = EmptyStr /\ probe.v.Classpath.nil
    /\ probe.out.err = "ok"

\* C15: ForceEnv(values) on a variant sets Env[k] to values[k] for the keys of both,
\* leaves every other entry and the key set of Env as they were, and returns a list
\* holding exactly the keys of both.
C15_ForceEnvFrame ==
    Returned("force") =>
      LET target == probe.v.Env
          values == probe.env
          after == probe.out.val.Env
      IN  /\ after.nil = target.nil
          /\ Keys(after) = Keys(target)
          /\ \A k \in Keys(target) :
               after.m[k] = IF k \in Keys(values) THEN values.m[k] ELSE target.m[k]
          /\ SeqRange(probe.out.val.updated) = Keys(target) \cap Keys(values)

\* the field of a command text is one --env token
IsEnvToken(field) == Len(field) > 0 /\ Head(field) = "--env="

\* C16: no space reaches a boot command. When GetBootCmd on a set that passes
\* Validate, native or Java, has returned a command, every space-separated field of
\* the command before the program is one whole --env token: no key and no value of
\* a token holds a space.
C16_NoSpaceInCommand ==
    (Ended /\ ret.kind = "cmd" /\ Validate(CallSet) = "ok")
    => \A i \in 1..(Len(Fields(ret.cmd)) - 1) : IsEnvToken(Fields(ret.cmd)[i])

\* C17: a direct call leaves the set as decoded. When GetBootCmd called directly on
\* a set, native or Java, with or without an Env, is over, the stored Env and Base
\* of that set are what they were before the call.
C17_DirectCallFrame ==
    (Ended /\ call.by = "direct")
    => /\ Variant(cmdConfigs, call.pkg, call.cs).Env = CallSet.Env
       /\ Variant(cmdConfigs, call.pkg, call.cs).Base = CallSet.Base

====
